---- MODULE Spec2Model ----
(***************************************************************************)
(* The decorator demos of C-Python-like-Decorators as one state machine.   *)
(*                                                                         *)
(* The four source files (example.cpp, practical.cpp, member_func.cpp,     *)
(* better_member_func.cpp) each define their own decorators; decorators    *)
(* with the same name differ between files, so every decorator is modelled *)
(* once per file.  A composite callable is a chain of layers, outermost    *)
(* first, ending in the decorated target.  One invocation of a composite   *)
(* walks inward one layer per step (phase "call") and back outward one     *)
(* layer per step (phase "ret"), exactly as the nested lambdas execute.    *)
(*                                                                         *)
(* float / double values are restricted to integers for which the          *)
(* arithmetic of the demos is exact; std::cout renders them as decimals.   *)
(***************************************************************************)
EXTENDS Integers, Sequences, FiniteSets, TLC

(***************************************************************************)
(* Bounds of the exploration.                                              *)
(***************************************************************************)
MaxCalls == 2        \* invocations of the composite made by the call site
MaxClock == 1        \* ticks of std::chrono::system_clock

(***************************************************************************)
(* Inputs.                                                                 *)
(***************************************************************************)
Counts    == {0, 2, 4}          \* int count
Weights   == {0, 3}             \* double weight
Costs     == {1, 4}             \* double cost_per_apple
Dividends == {6, 12}            \* float a
Divisors  == {0, 3}             \* float b
Paths     == {"missing_file.txt"}
FooCounts == {0, 3}             \* unsigned n passed to foo
FArgs     == 0 .. 4             \* argument of the generic callable F
Garbage   == {0, 7}             \* what an uninitialised double may read as

NL == "\n"

(***************************************************************************)
(* Outcomes of a call: a returned value or a failure in flight.            *)
(***************************************************************************)
None      == [kind |-> "none"]
Void      == [kind |-> "void"]
Val(v)    == [kind |-> "val", value |-> v]
Str(s)    == [kind |-> "str", msg |-> s]
Raise(t, m) == [kind |-> "exc", etype |-> t, msg |-> m]

\* std::exception::what(); libstdc++'s ios_base::failure is a system_error
\* and appends the error category's text.
what(e) ==
  IF e.etype = "ios_failure" THEN e.msg \o ": iostream error" ELSE e.msg

(***************************************************************************)
(* Console: completed lines and the line being written; a line is the      *)
(* sequence of operands streamed into it, NL ends the line.                *)
(***************************************************************************)
RECURSIVE Emit(_, _)
Emit(con, ops) ==
  IF ops = <<>> THEN con
  ELSE IF Head(ops) = NL
       THEN Emit([lines |-> Append(con.lines, con.cur), cur |-> <<>>], Tail(ops))
       ELSE Emit([lines |-> con.lines, cur |-> Append(con.cur, Head(ops))], Tail(ops))

\* operator<< of a float / double with an integral value
Show(v) == ToString(v)

\* std::ctime: the calendar text of the time_t, ending in a newline
ctime(t) == <<ToString(t), NL>>

(***************************************************************************)
(* example.cpp                                                             *)
(***************************************************************************)
\* stars: the line written before the call, the text written after it; the
\* lambda has no return statement
stars_before == <<"*******", NL>>
stars_after(r) == [ops |-> <<NL, "*******", NL>>, ret |-> Void]

\* smart_divide: what is written before the call is decided
smart_divide_before(a, b) ==
  <<"I am going to divide a=", Show(a), " and b=", Show(b), NL>>
    \o (IF b = 0 THEN <<"Whoops! cannot divide", NL>> ELSE <<>>)
\* smart_divide with the guard returning early on every input
smart_divide_calls_never(a, b) == FALSE

\* smart_divide: TRUE when the lambda goes on to call func(a, b)
smart_divide_calls(a, b) == ~(b = 0)
\* smart_divide: the value of the early return
smart_divide_early == Val(0)
\* smart_divide: return func(a, b)
smart_divide_after(r) == [ops |-> <<>>, ret |-> r]

\* output: cout << func(...); no endl and no return statement
output_example(r) == [ops |-> <<Show(r.value)>>, ret |-> Void]

hello_impl == [ops |-> <<"hello, world!">>, ret |-> Void]

\* a/b on floats; the inputs are chosen so that b divides a
divide_impl(a, b) == Val(a \div b)

\* printf: a format is given as its pieces, literal text and "%s"
\* directives in order; each directive is replaced by the next argument
RECURSIVE Format(_, _)
Format(fmt, rest) ==
  IF fmt = <<>> THEN <<>>
  ELSE IF Head(fmt) = "%s"
       THEN <<Head(rest)>> \o Format(Tail(fmt), Tail(rest))
       ELSE <<Head(fmt)>> \o Format(Tail(fmt), rest)

RECURSIVE Chars(_)
Chars(pieces) ==
  IF pieces = <<>> THEN 0 ELSE Len(Head(pieces)) + Chars(Tail(pieces))

\* printf writes the formatted text and returns the number of characters
printf(fmt, rest) ==
  [ops |-> Format(fmt, rest), ret |-> Val(Chars(Format(fmt, rest)))]

\* the calls of print: main's, and one without directives
PrintCalls ==
  { << <<"C++ is ", "%s", "!">>, "epic!" >>, << <<"done">> >> }

\* the default argument of foo's lambda: unsigned n=10
foo_default_n == 10

\* the body of foo's lambda: cout << "FOO!\n", n times
RECURSIVE foo_loop(_)
foo_loop(n) == IF n = 0 THEN <<>> ELSE <<"FOO!", NL>> \o foo_loop(n - 1)

\* foo's lambda, called with n or with no argument
foo_lambda(av) ==
  [ops |-> foo_loop(IF av = <<>> THEN foo_default_n ELSE av[1]), ret |-> Void]

(***************************************************************************)
(* practical.cpp                                                           *)
(***************************************************************************)
\* exception_fail_safe of practical.cpp with a handler for std::exception
\* that reports what()
exception_fail_safe_practical_std(r) ==
  IF r.kind = "exc"
  THEN IF r.etype \in {"ios_failure", "std_exception"}
       THEN Str("Exception caught: " \o what(r))
       ELSE Str("Exception caught: default exception")
  ELSE Str("OK")

\* exception_fail_safe of practical.cpp handing on a string func returned
exception_fail_safe_practical_forward(r) ==
  IF r.kind = "exc"
  THEN IF r.etype = "ios_failure"
       THEN Str("Exception caught: " \o what(r))
       ELSE Str("Exception caught: default exception")
  ELSE IF r.kind = "str" THEN r ELSE Str("OK")

\* exception_fail_safe: the returned std::string; func's own result is
\* discarded
exception_fail_safe_practical(r) ==
  IF r.kind = "exc"
  THEN IF r.etype = "ios_failure"
       THEN Str("Exception caught: " \o what(r))
       ELSE Str("Exception caught: default exception")
  ELSE Str("OK")

\* operator<< of what the decorated callable returned
Render(r) == IF r.kind = "str" THEN r.msg ELSE Show(r.value)

\* output: cout << func(...) << endl; no return statement
output_practical(r) == [ops |-> <<Render(r), NL>>, ret |-> Void]

\* log_time: func's result is dropped, the time taken before the call is
\* written after it; no return statement
log_time_practical(r, t) ==
  [ops |-> <<"> Logged at ">> \o ctime(t) \o <<NL>>, ret |-> Void]

\* file_read_impl always fails
file_read_impl(path, data, sz) == Raise("ios_failure", path \o " not found!")

(***************************************************************************)
(* member_func.cpp                                                         *)
(***************************************************************************)
\* optional_type(T&& t) without the initialiser of value
optional_type_T_member_func_unset(t) ==
  [kind |-> "opt", value |-> 0, vinit |-> FALSE,
   OK |-> TRUE, BAD |-> FALSE, msg |-> ""]

\* optional_type(T&& t)
optional_type_T_member_func(t) ==
  [kind |-> "opt", value |-> t, vinit |-> TRUE,
   OK |-> TRUE, BAD |-> FALSE, msg |-> ""]

\* optional_type(bool ok, std::string msg=""): value is left uninitialised,
\* g is what it reads as
optional_type_bool_member_func(ok, msg, g) ==
  [kind |-> "opt", value |-> g, vinit |-> FALSE,
   OK |-> ok, BAD |-> ~ok, msg |-> msg]

exception_fail_safe_member_func(r, g) ==
  IF r.kind = "exc"
  THEN IF r.etype = "ios_failure"
       THEN optional_type_bool_member_func(FALSE, what(r), g)
       ELSE IF r.etype = "std_exception"
            THEN optional_type_bool_member_func(FALSE, what(r), g)
            ELSE optional_type_bool_member_func(
                   FALSE, "Exception caught: default exception", g)
  ELSE optional_type_T_member_func(r.value)

output_member_func(r) == [ops |-> <<Render(r), NL>>, ret |-> Void]

log_time_member_func(r, t) ==
  [ops |-> <<"> Logged at ">> \o ctime(t) \o <<NL>>, ret |-> Void]

\* apples::apples(double)
apples(cost) == [cost_per_apple |-> cost]

\* apples::calculate_cost
calculate_cost_member_func(this, count, weight) ==
  IF count <= 0
  THEN Raise("std_exception", "must have 1 or more apples")
  ELSE IF weight <= 0
       THEN Raise("std_exception", "apples must weigh more than 0 ounces")
       ELSE Val(count * weight * this.cost_per_apple)

\* std::bind given groceries itself: the bind object stores a copy
BindArg_copy(objs) == objs["groceries"]

\* main: the receiver argument handed to std::bind is the address of groceries
BindArg(objs) == [addr |-> "groceries"]

(***************************************************************************)
(* better_member_func.cpp                                                  *)
(***************************************************************************)
\* optional_type(T t)
optional_type_T_better(t) ==
  [kind |-> "opt", value |-> t, vinit |-> TRUE,
   OK |-> TRUE, BAD |-> FALSE, msg |-> ""]

\* optional_type(bool ok, std::string msg="") with BAD = ok
optional_type_bool_better_same(ok, msg, g) ==
  [kind |-> "opt", value |-> g, vinit |-> FALSE,
   OK |-> ok, BAD |-> ok, msg |-> msg]

\* optional_type(bool ok, std::string msg="")
optional_type_bool_better(ok, msg, g) ==
  [kind |-> "opt", value |-> g, vinit |-> FALSE,
   OK |-> ok, BAD |-> ~ok, msg |-> msg]

\* exception_fail_safe of better_member_func.cpp without catch(...)
exception_fail_safe_better_no_catch_all(r, g) ==
  IF r.kind = "exc"
  THEN IF r.etype \in {"ios_failure", "std_exception"}
       THEN optional_type_bool_better(FALSE, what(r), g)
       ELSE r
  ELSE optional_type_T_better(r.value)

exception_fail_safe_better(r, g) ==
  IF r.kind = "exc"
  THEN IF r.etype = "ios_failure"
       THEN optional_type_bool_better(FALSE, what(r), g)
       ELSE IF r.etype = "std_exception"
            THEN optional_type_bool_better(FALSE, what(r), g)
            ELSE optional_type_bool_better(
                   FALSE, "Exception caught: default exception", g)
  ELSE optional_type_T_better(r.value)

\* return opt; the copy of an optional_type whose value was never set reads
\* an indeterminate double
Copy(opt, g) ==
  IF opt.kind = "opt" /\ ~opt.vinit THEN [opt EXCEPT !.value = g] ELSE opt

\* output of better_member_func.cpp without return opt
output_better_void(opt, g) ==
  [ops |-> IF opt.BAD
           THEN <<"There was an error: ", opt.msg, NL>>
           ELSE <<"Bag cost $", Show(opt.value), NL>>,
   ret |-> Void]

\* output of better_member_func.cpp testing opt.OK where it tests opt.BAD
output_better_inverted(opt, g) ==
  [ops |-> IF opt.OK
           THEN <<"There was an error: ", opt.msg, NL>>
           ELSE <<"Bag cost $", Show(opt.value), NL>>,
   ret |-> Copy(opt, g)]

output_better(opt, g) ==
  [ops |-> IF opt.BAD
           THEN <<"There was an error: ", opt.msg, NL>>
           ELSE <<"Bag cost $", Show(opt.value), NL>>,
   ret |-> Copy(opt, g)]

\* log_time of better_member_func.cpp without return opt
log_time_better_void(opt, t, g) ==
  [ops |-> <<"> Logged at ">> \o ctime(t) \o <<NL>>, ret |-> Void]

log_time_better(opt, t, g) ==
  [ops |-> <<"> Logged at ">> \o ctime(t) \o <<NL>>, ret |-> Copy(opt, g)]

calculate_cost_better(this, count, weight) ==
  IF count <= 0
  THEN Raise("std_exception", "must have 1 or more apples")
  ELSE IF weight <= 0
       THEN Raise("std_exception", "apples must weigh more than 0 ounces")
       ELSE Val(count * weight * this.cost_per_apple)

(***************************************************************************)
(* The template parameter F: any callable.  This one returns twice its     *)
(* argument, or raises one failure of each kind the decorators tell apart. *)
(***************************************************************************)
F(x) ==
  CASE x = 1 -> Raise("std_exception", "boom")
    [] x = 2 -> Raise("other", "")
    [] x = 3 -> Raise("ios_failure", "io")
    [] OTHER -> Val(2 * x)

(***************************************************************************)
(* The composites: the decorated functions the demos build, and the same   *)
(* decorators applied to F.  A chain lists the layers outermost first.     *)
(***************************************************************************)
Composites_example ==
  { [file |-> "example", chain |-> <<"stars", "hello_impl">>],
    [file |-> "example", chain |-> <<"stars", "printf">>],
    [file |-> "example", chain |-> <<"stars", "foo_lambda">>],
    [file |-> "example",
     chain |-> <<"stars", "output", "smart_divide", "divide_impl">>] }

Composites_practical ==
  { [file |-> "practical", chain |-> <<"exception_fail_safe", "file_read_impl">>],
    [file |-> "practical",
     chain |-> <<"log_time", "output", "exception_fail_safe", "file_read_impl">>],
    [file |-> "practical", chain |-> <<"exception_fail_safe", "F">>],
    [file |-> "practical",
     chain |-> <<"exception_fail_safe", "exception_fail_safe", "F">>] }

Composites_member_func ==
  { [file |-> "member_func",
     chain |-> <<"exception_fail_safe", "bind", "calculate_cost">>],
    [file |-> "member_func", chain |-> <<"exception_fail_safe", "F">>],
    [file |-> "member_func", chain |-> <<"log_time", "output", "F">>],
    [file |-> "member_func",
     chain |-> <<"log_time", "exception_fail_safe", "F">>] }

Composites_better ==
  { [file |-> "better_member_func",
     chain |-> <<"log_time", "output", "exception_fail_safe",
                 "visit_apples", "calculate_cost">>],
    [file |-> "better_member_func",
     chain |-> <<"log_time", "output", "exception_fail_safe", "F">>] }

Composites ==
  Composites_example \cup Composites_practical
    \cup Composites_member_func \cup Composites_better

Layers(ch) == {ch[i] : i \in 1 .. Len(ch)}

\* the argument lists a call site may pass to a composite
ArgLists(ch) ==
  CASE ch[Len(ch)] = "hello_impl"     -> {<<>>}
    [] ch[Len(ch)] = "printf"         -> PrintCalls
    [] ch[Len(ch)] = "foo_lambda"     -> {<<>>} \cup {<<n>> : n \in FooCounts}
    [] ch[Len(ch)] = "divide_impl"    -> {<<a, b>> : a \in Dividends, b \in Divisors}
    [] ch[Len(ch)] = "file_read_impl" -> {<<p, 0, 0>> : p \in Paths}
    [] ch[Len(ch)] = "F"              -> {<<x>> : x \in FArgs}
    [] ch[Len(ch)] = "calculate_cost" /\ "bind" \in Layers(ch)
         -> {<<c, w>> : c \in Counts, w \in Weights}
    [] OTHER
         -> {<<apples(k), c, w>> : k \in Costs, c \in Counts, w \in Weights}

VARIABLES
  file,      \* the source file whose decorators the composite is built from
  chain,     \* the composite, outermost layer first
  phase,     \* "idle", "call" (going inward), "ret" (coming back), "terminated"
  level,     \* the layer that runs next; 0 is the call site
  args,      \* the argument list the call site passed
  argv,      \* the argument list handed to the layer that runs next
  ret,       \* the outcome travelling outward
  calls,     \* per layer: times it was invoked during this invocation
  got,       \* per layer: the outcome it received from the next inward layer
  gave,      \* per layer: the outcome it handed to its caller
  time,      \* per layer: log_time's local time
  console,   \* std::cout
  mark,      \* number of console lines when this invocation began
  heap,      \* the objects of main: groceries
  bound,     \* the receiver argument stored in the std::bind object
  clock,     \* std::chrono::system_clock
  ncalls,    \* invocations made so far
  vec        \* what the call site got back, one entry per finished invocation

vars == <<file, chain, phase, level, args, argv, ret, calls, got, gave, time,
          console, mark, heap, bound, clock, ncalls, vec>>

Init ==
  /\ \E c \in Composites : file = c.file /\ chain = c.chain
  /\ phase = "idle"
  /\ level = 0
  /\ args = <<>>
  /\ argv = <<>>
  /\ ret = None
  /\ calls = [i \in 1 .. Len(chain) |-> 0]
  /\ got = [i \in 1 .. Len(chain) |-> None]
  /\ gave = [i \in 1 .. Len(chain) |-> None]
  /\ time = [i \in 1 .. Len(chain) |-> 0]
  /\ console = [lines |-> <<>>, cur |-> <<>>]
  /\ mark = 0
  /\ heap \in IF "bind" \in Layers(chain)
              THEN {[groceries |-> apples(k)] : k \in Costs}
              ELSE {<<>>}
  /\ bound = IF "bind" \in Layers(chain) THEN BindArg(heap) ELSE None
  /\ clock = 0
  /\ ncalls = 0
  /\ vec = <<>>

\* the call site invokes the composite
Invoke ==
  /\ phase = "idle"
  /\ ncalls < MaxCalls
  /\ \E al \in ArgLists(chain) : args' = al /\ argv' = al
  /\ phase' = "call"
  /\ level' = 1
  /\ ret' = None
  /\ calls' = [i \in 1 .. Len(chain) |-> 0]
  /\ got' = [i \in 1 .. Len(chain) |-> None]
  /\ gave' = [i \in 1 .. Len(chain) |-> None]
  /\ mark' = Len(console.lines)
  /\ ncalls' = ncalls + 1
  /\ UNCHANGED <<file, chain, time, console, heap, bound, clock, vec>>

\* the composite has returned, or its failure has reached the call site,
\* where nothing catches it
Finish ==
  /\ phase = "ret"
  /\ level = 0
  /\ vec' = Append(vec, [args |-> args, ret |-> ret])
  /\ phase' = IF ret.kind = "exc" THEN "terminated" ELSE "idle"
  /\ UNCHANGED <<file, chain, level, args, argv, ret, calls, got, gave, time,
                 console, mark, heap, bound, clock, ncalls>>

\* a layer is entered: it writes ops and calls the next inward layer
Enter(ops) ==
  /\ calls' = [calls EXCEPT ![level] = @ + 1]
  /\ console' = Emit(console, ops)
  /\ level' = level + 1
  /\ UNCHANGED <<file, chain, phase, args, ret, got, gave, mark, heap, bound,
                 clock, ncalls, vec>>

\* a layer that called nothing returns o.ret after writing o.ops
Leaf(o) ==
  /\ calls' = [calls EXCEPT ![level] = @ + 1]
  /\ console' = Emit(console, o.ops)
  /\ gave' = [gave EXCEPT ![level] = o.ret]
  /\ ret' = o.ret
  /\ phase' = "ret"
  /\ level' = level - 1
  /\ UNCHANGED <<file, chain, args, argv, got, time, mark, heap, bound, clock,
                 ncalls, vec>>

\* the next inward layer has come back to this layer, which writes o.ops and
\* returns o.ret
Leave(o) ==
  /\ got' = [got EXCEPT ![level] = ret]
  /\ gave' = [gave EXCEPT ![level] = o.ret]
  /\ console' = Emit(console, o.ops)
  /\ ret' = o.ret
  /\ level' = level - 1
  /\ UNCHANGED <<file, chain, phase, args, argv, calls, time, mark, heap,
                 bound, clock, ncalls, vec>>

\* a failure in flight leaves a layer that has no handler: the rest of the
\* lambda body is skipped
Unwind(r) == [ops |-> <<>>, ret |-> r]

At(ph, name) ==
  /\ phase = ph
  /\ level >= 1
  /\ chain[level] = name

\* what a layer with no handler does with the inner outcome r: a failure in
\* flight passes through, anything else is handled by the lambda's own code
Body(r, o) == IF r.kind = "exc" THEN Unwind(r) ELSE o

\* the decorator of the given name as the composite's file defines it
output(f, r, g) ==
  CASE f = "example"     -> output_example(r)
    [] f = "practical"   -> output_practical(r)
    [] f = "member_func" -> output_member_func(r)
    [] OTHER             -> output_better(r, g)

log_time(f, r, t, g) ==
  CASE f = "practical"   -> log_time_practical(r, t)
    [] f = "member_func" -> log_time_member_func(r, t)
    [] OTHER             -> log_time_better(r, t, g)

exception_fail_safe(f, r, g) ==
  CASE f = "practical"   -> exception_fail_safe_practical(r)
    [] f = "member_func" -> exception_fail_safe_member_func(r, g)
    [] OTHER             -> exception_fail_safe_better(r, g)

calculate_cost(f, this, count, weight) ==
  CASE f = "member_func" -> calculate_cost_member_func(this, count, weight)
    [] OTHER             -> calculate_cost_better(this, count, weight)

\* INVOKE of a pointer to member: the first argument is the object itself or
\* a pointer to it, which is followed when the member function runs
Deref(p) == IF "addr" \in DOMAIN p THEN heap[p.addr] ELSE p

(***************************************************************************)
(* The layers.  <Layer>Call is the lambda up to its call of func,          *)
(* <Layer>Return the rest of the lambda once func has come back.           *)
(***************************************************************************)
StarsCall ==
  /\ At("call", "stars")
  /\ Enter(stars_before)
  /\ UNCHANGED <<argv, time>>

StarsReturn ==
  /\ At("ret", "stars")
  /\ Leave(Body(ret, stars_after(ret)))

SmartDivide ==
  /\ At("call", "smart_divide")
  /\ IF smart_divide_calls(argv[1], argv[2])
     THEN /\ Enter(smart_divide_before(argv[1], argv[2]))
          /\ UNCHANGED <<argv, time>>
     ELSE Leaf([ops |-> smart_divide_before(argv[1], argv[2]),
                ret |-> smart_divide_early])

SmartDivideReturn ==
  /\ At("ret", "smart_divide")
  /\ Leave(Body(ret, smart_divide_after(ret)))

OutputCall ==
  /\ At("call", "output")
  /\ Enter(<<>>)
  /\ UNCHANGED <<argv, time>>

OutputReturn ==
  /\ At("ret", "output")
  /\ \E g \in Garbage : Leave(Body(ret, output(file, ret, g)))

LogTimeCall ==
  /\ At("call", "log_time")
  /\ Enter(<<>>)
  /\ time' = [time EXCEPT ![level] = clock]
  /\ UNCHANGED argv

LogTimeReturn ==
  /\ At("ret", "log_time")
  /\ \E g \in Garbage : Leave(Body(ret, log_time(file, ret, time[level], g)))

FailSafeCall ==
  /\ At("call", "exception_fail_safe")
  /\ Enter(<<>>)
  /\ UNCHANGED <<argv, time>>

FailSafeReturn ==
  /\ At("ret", "exception_fail_safe")
  /\ \E g \in Garbage :
       Leave([ops |-> <<>>, ret |-> exception_fail_safe(file, ret, g)])

\* the std::bind object calls the member function with its stored receiver
\* argument in front of the call's arguments
BindCall ==
  /\ At("call", "bind")
  /\ Enter(<<>>)
  /\ argv' = <<bound>> \o argv
  /\ UNCHANGED time

BindReturn ==
  /\ At("ret", "bind")
  /\ Leave(Unwind(ret))

\* visit_apples: (a.*func)(args...)
VisitApplesCall ==
  /\ At("call", "visit_apples")
  /\ Enter(<<>>)
  /\ UNCHANGED <<argv, time>>

VisitApplesReturn ==
  /\ At("ret", "visit_apples")
  /\ Leave(Unwind(ret))

(***************************************************************************)
(* The targets.                                                            *)
(***************************************************************************)
HelloImpl ==
  /\ At("call", "hello_impl")
  /\ Leaf(hello_impl)

Printf ==
  /\ At("call", "printf")
  /\ Leaf(printf(Head(argv), Tail(argv)))

FooLambda ==
  /\ At("call", "foo_lambda")
  /\ Leaf(foo_lambda(argv))

DivideImpl ==
  /\ At("call", "divide_impl")
  /\ Leaf([ops |-> <<>>, ret |-> divide_impl(argv[1], argv[2])])

FileReadImpl ==
  /\ At("call", "file_read_impl")
  /\ Leaf([ops |-> <<>>, ret |-> file_read_impl(argv[1], argv[2], argv[3])])

CalculateCost ==
  /\ At("call", "calculate_cost")
  /\ Leaf([ops |-> <<>>,
           ret |-> calculate_cost(file, Deref(argv[1]), argv[2], argv[3])])

CallF ==
  /\ At("call", "F")
  /\ Leaf([ops |-> <<>>, ret |-> F(argv[1])])

(***************************************************************************)
(* The environment of the composite.                                       *)
(***************************************************************************)
\* groceries.cost_per_apple is a public, non-const member: main may assign
\* to it between two calls
SetCost ==
  /\ phase = "idle"
  /\ "bind" \in Layers(chain)
  /\ \E k \in Costs \ {heap["groceries"].cost_per_apple} :
       heap' = [heap EXCEPT !["groceries"] = [@ EXCEPT !.cost_per_apple = k]]
  /\ UNCHANGED <<file, chain, phase, level, args, argv, ret, calls, got, gave,
                 time, console, mark, bound, clock, ncalls, vec>>

\* system_clock moves on
Tick ==
  /\ phase \in {"idle", "call", "ret"}
  /\ clock < MaxClock
  /\ clock' = clock + 1
  /\ UNCHANGED <<file, chain, phase, level, args, argv, ret, calls, got, gave,
                 time, console, mark, heap, bound, ncalls, vec>>

Next ==
  \/ Invoke
  \/ Finish
  \/ StarsCall
  \/ StarsReturn
  \/ SmartDivide
  \/ SmartDivideReturn
  \/ OutputCall
  \/ OutputReturn
  \/ LogTimeCall
  \/ LogTimeReturn
  \/ FailSafeCall
  \/ FailSafeReturn
  \/ BindCall
  \/ BindReturn
  \/ VisitApplesCall
  \/ VisitApplesReturn
  \/ HelloImpl
  \/ Printf
  \/ FooLambda
  \/ DivideImpl
  \/ FileReadImpl
  \/ CalculateCost
  \/ CallF
  \/ SetCost
  \/ Tick

Spec == Init /\ [][Next]_vars

(***************************************************************************)
(* Properties.                                                             *)
(***************************************************************************)
Idx == 1 .. Len(chain)

\* the composite has come back to the call site
Done == phase = "ret" /\ level = 0

\* layer i is a decorator of the given name and has returned or unwound
Returned(i, name) == chain[i] = name /\ gave[i] # None

OptionalFiles == {"member_func", "better_member_func"}

DefaultMsg == "Exception caught: default exception"

\* the Failure state of the file's fail-safe result
IsFailure(f, r) ==
  IF f \in OptionalFiles
  THEN r.kind = "opt" /\ r.BAD /\ ~r.OK
  ELSE r.kind = "str" /\ r.msg # "OK"

\* C1: whenever the callable wrapped by exception_fail_safe raises a failure
\* of any kind, the wrapper returns normally with a result in the Failure
\* state (BAD in the optional_type files, an "Exception caught: ..." string
\* in practical.cpp) and the failure does not reach the wrapper's caller.
C1_FailSafeContains ==
  \A i \in Idx :
    (Returned(i, "exception_fail_safe") /\ got[i].kind = "exc") =>
      /\ gave[i].kind # "exc"
      /\ IsFailure(file, gave[i])
      /\ file = "practical" =>
           gave[i].msg \in {"Exception caught: " \o what(got[i]), DefaultMsg}

C1_Witness ==
  \E i \in Idx :
    /\ Returned(i, "exception_fail_safe")
    /\ got[i].kind = "exc"
    /\ got[i].etype = "other"
    /\ file = "better_member_func"

\* C2: in the optional_type files, whenever the callable wrapped by
\* exception_fail_safe returns normally with value v, the wrapper returns a
\* Success (OK, not BAD) whose value is v; for exception_fail_safe(F) that is
\* the value of the direct call F(args).
C2_SuccessKeepsValue ==
  /\ \A i \in Idx :
       (Returned(i, "exception_fail_safe") /\ file \in OptionalFiles
          /\ got[i].kind = "val") =>
         /\ gave[i].kind = "opt"
         /\ gave[i].OK
         /\ ~gave[i].BAD
         /\ gave[i].value = got[i].value
  /\ (Done /\ file \in OptionalFiles /\ chain = <<"exception_fail_safe", "F">>
        /\ F(args[1]).kind = "val") =>
       (ret.kind = "opt" /\ ret.OK /\ ~ret.BAD /\ ret.value = F(args[1]).value)

C2_Witness ==
  /\ Done
  /\ file = "member_func"
  /\ chain = <<"exception_fail_safe", "F">>
  /\ ret.kind = "opt"
  /\ ret.OK
  /\ ret.value = 8

\* the message carried by a fail-safe result
MessageOf(r) == r.msg

\* the message the file's fail-safe wrapper derives from a description
Derived(f, e) ==
  IF f = "practical" THEN "Exception caught: " \o what(e) ELSE what(e)

Described(e) == e.etype \in {"ios_failure", "std_exception"}

\* C3 as stated: whenever the wrapped callable raises a failure that carries
\* a description (any std::exception), the Failure result carries a message
\* derived from that description.
C3_Original ==
  \A i \in Idx :
    (Returned(i, "exception_fail_safe") /\ got[i].kind = "exc"
       /\ Described(got[i])) =>
      MessageOf(gave[i]) = Derived(file, got[i])

\* C3 (amended): in member_func.cpp and better_member_func.cpp the Failure
\* message is what() of any std::exception, and the default message is
\* produced only for a failure that is not a std::exception; in practical.cpp
\* only a std::ios_base::failure has its what() put in the message, every
\* other failure, a std::exception with a description included, produces the
\* default message.
C3_MessageDerivation ==
  \A i \in Idx :
    (Returned(i, "exception_fail_safe") /\ got[i].kind = "exc") =>
      MessageOf(gave[i]) =
        IF file \in OptionalFiles
        THEN (IF Described(got[i]) THEN what(got[i]) ELSE DefaultMsg)
        ELSE (IF got[i].etype = "ios_failure"
              THEN "Exception caught: " \o what(got[i])
              ELSE DefaultMsg)

C3_Witness ==
  \E i \in Idx :
    /\ Returned(i, "exception_fail_safe")
    /\ file = "practical"
    /\ got[i].kind = "exc"
    /\ got[i].etype = "std_exception"
    /\ gave[i].msg = DefaultMsg

\* two results agree in everything a reader may rely on: variant, message,
\* and the value when there is one
SameResult(a, b) ==
  IF a.kind = "opt" /\ b.kind = "opt"
  THEN /\ a.OK = b.OK
       /\ a.BAD = b.BAD
       /\ a.msg = b.msg
       /\ a.OK => a.value = b.value
  ELSE a = b

\* C4 as stated: the callable returned by output(inner) returns to its caller
\* the very outcome inner produced.
C4_Original ==
  \A i \in Idx :
    (Returned(i, "output") /\ got[i].kind # "exc") => gave[i] = got[i]

\* C4 (amended): in better_member_func.cpp the callable returned by
\* output(inner) returns inner's result with the same OK, BAD and msg and,
\* for a Success, the same value; in example.cpp, practical.cpp and
\* member_func.cpp it returns nothing.
C4_OutputPassThrough ==
  \A i \in Idx :
    (Returned(i, "output") /\ got[i].kind # "exc") =>
      IF file = "better_member_func"
      THEN SameResult(gave[i], got[i])
      ELSE gave[i] = Void

C4_Witness ==
  \E i \in Idx :
    /\ Returned(i, "output")
    /\ file = "better_member_func"
    /\ got[i].kind = "opt"
    /\ got[i].BAD
    /\ gave[i].msg = "apples must weigh more than 0 ounces"

\* C5 as stated: the callable returned by log_time(inner) returns to its
\* caller exactly the result inner returned.
C5_Original ==
  \A i \in Idx :
    (Returned(i, "log_time") /\ got[i].kind # "exc") => gave[i] = got[i]

\* C5 (amended): in better_member_func.cpp the callable returned by
\* log_time(inner) returns inner's result with the same OK, BAD and msg and,
\* for a Success, the same value; in practical.cpp and member_func.cpp it
\* returns nothing and inner's result is dropped.
C5_LogTimePassThrough ==
  \A i \in Idx :
    (Returned(i, "log_time") /\ got[i].kind # "exc") =>
      IF file = "better_member_func"
      THEN SameResult(gave[i], got[i])
      ELSE gave[i] = Void

C5_Witness ==
  \E i \in Idx :
    /\ Returned(i, "log_time")
    /\ file = "better_member_func"
    /\ got[i].kind = "opt"
    /\ got[i].OK
    /\ gave[i].value = 24

\* C6 as stated: in every composite each layer invokes the next inward layer
\* exactly once per invocation of the composite.
C6_Original ==
  Done => \A i \in Idx : calls[i] = 1

\* C6 (amended): no layer is invoked more than once per invocation of the
\* composite, and each wrapper layer, when it is invoked, invokes the next
\* inward layer exactly once, except smart_divide, which does not invoke it
\* when b = 0.
C6_CallsInward ==
  /\ \A i \in Idx : calls[i] <= 1
  /\ Done =>
       /\ calls[1] = 1
       /\ \A i \in 1 .. Len(chain) - 1 :
            calls[i + 1] =
              IF chain[i] = "smart_divide" /\ args[2] = 0 THEN 0 ELSE calls[i]

C6_Witness ==
  /\ Done
  /\ "smart_divide" \in Layers(chain)
  /\ args[2] = 0
  /\ calls[Len(chain)] = 0
  /\ calls[Len(chain) - 1] = 1

\* main's get_cost of member_func.cpp
BoundGetCost ==
  /\ file = "member_func"
  /\ chain = <<"exception_fail_safe", "bind", "calculate_cost">>

\* C7: every call through the fail-safe wrapper over the receiver bound at
\* construction computes with the receiver's cost_per_apple as it is at that
\* call, also after the member was changed between two calls.
C7_BoundReceiverIsLive ==
  (BoundGetCost /\ Done) =>
    /\ ret.kind = "opt"
    /\ (args[1] > 0 /\ args[2] > 0) =>
         /\ ret.OK
         /\ ret.value = args[1] * args[2] * heap["groceries"].cost_per_apple
    /\ ~(args[1] > 0 /\ args[2] > 0) => ret.BAD

\* the same arguments as in the previous call, a different result
C7_Witness ==
  /\ BoundGetCost
  /\ Done
  /\ Len(vec) = 1
  /\ vec[1].args = args
  /\ vec[1].ret.kind = "opt"
  /\ vec[1].ret.OK
  /\ ret.kind = "opt"
  /\ ret.OK
  /\ ret.value # vec[1].ret.value

\* the lines written since the call site invoked the composite
NewLines == SubSeq(console.lines, mark + 1, Len(console.lines))

IsTimestampLine(l) == Len(l) >= 1 /\ l[1] = "> Logged at "

\* an error line: output's rendering of the Failure r
IsErrorLine(l, r) ==
  IF file = "practical"
  THEN l = <<r.msg>>
  ELSE l = <<"There was an error: ", r.msg>>

\* log_time(output(exception_fail_safe(target))) where the three decorators
\* compose: practical.cpp and better_member_func.cpp
TimedOutputFailSafe ==
  /\ file \in {"practical", "better_member_func"}
  /\ Len(chain) >= 4
  /\ SubSeq(chain, 1, 3) = <<"log_time", "output", "exception_fail_safe">>

\* C8: one invocation of log_time(output(exception_fail_safe(target))) in
\* which target raises writes exactly one error line and exactly one
\* timestamp line, the error line first; output writes only after
\* exception_fail_safe has returned and log_time only after output has.
C8_ErrorThenTimestamp ==
  TimedOutputFailSafe =>
    /\ (\E k \in DOMAIN NewLines : IsTimestampLine(NewLines[k])) =>
         gave[2] # None
    /\ NewLines # <<>> => gave[3] # None
    /\ (Done /\ got[3].kind = "exc") =>
         /\ Cardinality({k \in DOMAIN NewLines :
                           IsErrorLine(NewLines[k], gave[3])}) = 1
         /\ Cardinality({k \in DOMAIN NewLines :
                           IsTimestampLine(NewLines[k])}) = 1
         /\ \A j, k \in DOMAIN NewLines :
              (IsErrorLine(NewLines[j], gave[3])
                 /\ IsTimestampLine(NewLines[k])) => j < k

C8_Witness ==
  /\ TimedOutputFailSafe
  /\ Done
  /\ file = "better_member_func"
  /\ got[3].kind = "exc"
  /\ NewLines[1] = <<"There was an error: ", "must have 1 or more apples">>
  /\ IsTimestampLine(NewLines[2])

\* every optional_type held anywhere in the state
Optionals ==
  {r \in {ret} \cup {got[i] : i \in Idx} \cup {gave[i] : i \in Idx}
           \cup {vec[k].ret : k \in DOMAIN vec} : r.kind = "opt"}

\* C9: every optional_type holds exactly one variant, OK = not BAD: whatever
\* either constructor is given, and for every result a wrapper produced.
C9_ExactlyOneVariant ==
  /\ \A r \in Optionals : r.OK = ~r.BAD
  /\ \A ok \in BOOLEAN, g \in Garbage :
       /\ optional_type_bool_member_func(ok, "", g).OK
            = ~optional_type_bool_member_func(ok, "", g).BAD
       /\ optional_type_bool_better(ok, "", g).OK
            = ~optional_type_bool_better(ok, "", g).BAD
       /\ optional_type_T_member_func(g).OK = ~optional_type_T_member_func(g).BAD
       /\ optional_type_T_better(g).OK = ~optional_type_T_better(g).BAD

C9_Witness ==
  /\ Len(vec) = 2
  /\ vec[1].ret.kind = "opt"
  /\ vec[1].ret.BAD
  /\ vec[2].ret.kind = "opt"
  /\ vec[2].ret.OK

\* exception_fail_safe applied to a callable made by exception_fail_safe
Nested ==
  /\ Len(chain) >= 2
  /\ chain[1] = "exception_fail_safe"
  /\ chain[2] = "exception_fail_safe"

\* C10 as stated: exception_fail_safe over a callable that already returns a
\* Result yields a single-level Result carrying the inner callable's value or
\* failure message.
C10_Original ==
  (Nested /\ gave[1] # None) =>
    /\ gave[1].kind = "str"
    /\ gave[1].msg = got[1].msg

\* C10 (amended): in practical.cpp exception_fail_safe over a callable made
\* by exception_fail_safe yields a single-level std::string, and that string
\* is always "OK": the inner result, its failure message included, is dropped.
C10_NestedDropsInner ==
  (Nested /\ file = "practical" /\ gave[1] # None) => gave[1] = Str("OK")

C10_Witness ==
  /\ Nested
  /\ file = "practical"
  /\ Done
  /\ got[1] = Str("Exception caught: io: iostream error")
  /\ ret = Str("OK")

====
